---- MODULE Spec2Model ----
(***************************************************************************)
(* A model of the JSON filter application (src/src/App.js): the path       *)
(* indexer buildKeyTree, the projector filterJson, and the App component's *)
(* handlers (file upload with its asynchronous FileReader callbacks, key   *)
(* toggle, select all, deselect all, download).                            *)
(*                                                                         *)
(* A JavaScript string is a sequence of one-character strings, so that     *)
(* startsWith, endsWith, split('.') and localeCompare are computed on the  *)
(* characters as the code computes them.  "a.[]" is <<"a",".","[","]">>.   *)
(***************************************************************************)
EXTENDS Integers, Sequences, FiniteSets, TLC

(***************************************************************************)
(* JSON values.  JavaScript null is JNull, both as the JSON value null and *)
(* as the `null` the code returns or stores for "nothing": the code uses   *)
(* one and the same value for the two.                                     *)
(***************************************************************************)
JNull == [t |-> "null"]

Num(n) == [t |-> "num", n |-> n]

Arr(items) == [t |-> "arr", items |-> items]

\* members: the object's own properties in insertion order, <<key, value>>
Obj(members) == [t |-> "obj", members |-> members]

\* typeof node === 'object' && node !== null
IsObjectType(node) == node.t \in {"arr", "obj"}

(***************************************************************************)
(* Strings                                                                 *)
(***************************************************************************)
\* a string in a boolean context: '' is falsy
Truthy(str) == Len(str) > 0

startsWith(str, search) ==
    /\ Len(search) <= Len(str)
    /\ SubSeq(str, 1, Len(search)) = search

endsWith(str, search) ==
    /\ Len(search) <= Len(str)
    /\ SubSeq(str, Len(str) - Len(search) + 1, Len(str)) = search

\* str.split('.').pop(): what follows the last '.', the whole string if none
RECURSIVE splitPop(_)
splitPop(str) ==
    IF \A i \in 1..Len(str) : str[i] # "."
    THEN str
    ELSE splitPop(Tail(str))

\* `${currentPrefix}.[]`
ItemPath(prefix) == prefix \o <<".", "[", "]">>

\* prefix ? `${prefix}.${key}` : key
JoinPath(prefix, key) == IF Truthy(prefix) THEN prefix \o <<".">> \o key ELSE key

\* The default locale of the engine, which a.localeCompare(b) collates by:
\* one locale for each order the characters of this model's paths have.
\* en-US stands for the locales that order punctuation before letters,
\* th-TH for those that ignore punctuation.
Locales == {"en-US", "th-TH"}

\* collation rank of the characters the documents of this model use
CharRank(c) ==
    CASE c = "." -> 1
      [] c = "[" -> 2
      [] c = "]" -> 3
      [] c = "a" -> 4
      [] c = "b" -> 5
      [] c = "c" -> 6
      [] c = "d" -> 7

isLetter(c) == c \notin {".", "[", "]"}

\* The collation elements of a string.  en-US: one for each character.
\* th-TH: one for each letter, punctuation is ignored.
RECURSIVE collationKey(_, _)
collationKey(str, locale) ==
    IF Len(str) = 0 THEN <<>>
    ELSE (IF locale = "th-TH" /\ ~isLetter(Head(str))
          THEN <<>> ELSE <<CharRank(Head(str))>>)
         \o collationKey(Tail(str), locale)

\* the order of two sequences of collation elements: -1, 0 or 1
RECURSIVE compareKeys(_, _)
compareKeys(x, y) ==
    IF Len(x) = 0 /\ Len(y) = 0 THEN 0
    ELSE IF Len(x) = 0 THEN -1
    ELSE IF Len(y) = 0 THEN 1
    ELSE IF Head(x) = Head(y) THEN compareKeys(Tail(x), Tail(y))
    ELSE IF Head(x) < Head(y) THEN -1 ELSE 1

\* a.localeCompare(b) in the default locale
localeCompare(a, b, locale) ==
    compareKeys(collationKey(a, locale), collationKey(b, locale))

\* a.localeCompare(b) < 0
localeLess(a, b, locale) == localeCompare(a, b, locale) < 0

(***************************************************************************)
(* buildKeyTree                                                            *)
(***************************************************************************)
\* parentPath: null of the top-level call
NullPath == <<"null">>

RECURSIVE Flatten(_)
Flatten(seqs) ==
    IF Len(seqs) = 0 THEN <<>> ELSE Head(seqs) \o Flatten(Tail(seqs))

\* processNode: the entries pushed to `keys`, in the order of the pushes
\* (the id is the position of the push, given by buildKeyTree)
RECURSIVE processNode(_, _, _, _)
processNode(node, currentPrefix, currentLevel, currentParentPath) ==
    IF ~IsObjectType(node) THEN <<>>
    ELSE IF node.t = "arr" THEN
        (IF Truthy(currentPrefix)
         THEN << [path |-> currentPrefix,
                  displayName |-> splitPop(currentPrefix),
                  level |-> currentLevel,
                  parentPath |-> currentParentPath] >>
         ELSE <<>>)
        \o Flatten([i \in 1..Len(node.items) |->
                      processNode(node.items[i], ItemPath(currentPrefix),
                                  currentLevel + 1, currentPrefix)])
    ELSE
        Flatten([i \in 1..Len(node.members) |->
            LET key == node.members[i][1]
                fullPath == JoinPath(currentPrefix, key)
                displayName == IF endsWith(currentPrefix, <<"[", "]">>)
                               THEN <<"[", "]", ".">> \o key ELSE key
            IN  << [path |-> fullPath,
                    displayName |-> displayName,
                    level |-> currentLevel,
                    parentPath |-> currentParentPath] >>
                \o processNode(node.members[i][2], fullPath,
                               currentLevel + 1, fullPath)])

\* keys.forEach(key => if (!uniqueKeysMap.has(key.path)) set): first wins
RECURSIVE uniqueKeys(_, _)
uniqueKeys(keys, seen) ==
    IF Len(keys) = 0 THEN <<>>
    ELSE IF Head(keys).path \in seen THEN uniqueKeys(Tail(keys), seen)
    ELSE <<Head(keys)>> \o uniqueKeys(Tail(keys), seen \cup {Head(keys).path})

\* .sort((a, b) => a.path.localeCompare(b.path)): the sort is stable, paths
\* that compare as equal keep their order
RECURSIVE sortByPath(_, _)
sortByPath(keys, locale) ==
    IF Len(keys) = 0 THEN <<>>
    ELSE LET least(i) == \A j \in 1..Len(keys) :
                            ~localeLess(keys[j].path, keys[i].path, locale)
             m == CHOOSE i \in 1..Len(keys) :
                    least(i) /\ \A j \in 1..(i - 1) : ~least(j)
             rest == [j \in 1..(Len(keys) - 1) |->
                        IF j < m THEN keys[j] ELSE keys[j + 1]]
         IN  <<keys[m]>> \o sortByPath(rest, locale)

buildKeyTree(obj, locale) ==
    LET pushed == processNode(obj, <<>>, 0, NullPath)
        keys == [i \in 1..Len(pushed) |->
                    [id |-> i - 1,
                     path |-> pushed[i].path,
                     displayName |-> pushed[i].displayName,
                     level |-> pushed[i].level,
                     parentPath |-> pushed[i].parentPath]]
    IN  sortByPath(uniqueKeys(keys, {}), locale)

\* extracted.map(key => key.path) as a Set
PathSet(keys) == {keys[i].path : i \in 1..Len(keys)}

(***************************************************************************)
(* filterJson                                                              *)
(***************************************************************************)
\* a guard that looks for selected paths strictly below childPath only
shouldProcessChildBelow(selectedPaths, childPath) ==
    \E p \in selectedPaths : startsWith(p, childPath \o <<".">>)

\* [...selectedPaths].some(p => p.startsWith(childPath))
shouldProcessChild(selectedPaths, childPath) ==
    \E p \in selectedPaths : startsWith(p, childPath)

\* .filter(item => item !== null)
notNull(item) == item # JNull

\* a container kept whatever it holds (filteredItems.length >= 0)
keepContainerAlways(hasContent, selectedPaths, path) == TRUE

\* a container kept for its content alone
keepContainerForContent(hasContent, selectedPaths, path) == hasContent

\* filteredItems.length > 0 || selectedPaths.has(arrayPath), and
\* hasContent || selectedPaths.has(path)
keepContainer(hasContent, selectedPaths, path) ==
    hasContent \/ path \in selectedPaths

RECURSIVE filterJson(_, _, _)
\* the for-in loop of the object branch over the members from position i on:
\* the members added to newObj
RECURSIVE filterMembers(_, _, _, _)
filterMembers(members, i, selectedPaths, path) ==
    IF i > Len(members) THEN <<>>
    ELSE LET key == members[i][1]
             childPath == JoinPath(path, key)
             filteredChild == filterJson(members[i][2], selectedPaths, childPath)
             kept == IF shouldProcessChild(selectedPaths, childPath)
                        /\ filteredChild # JNull
                     THEN << <<key, filteredChild>> >>
                     ELSE <<>>
         IN  kept \o filterMembers(members, i + 1, selectedPaths, path)

filterJson(data, selectedPaths, path) ==
    IF ~IsObjectType(data) THEN
        IF path \in selectedPaths THEN data ELSE JNull
    ELSE IF data.t = "arr" THEN
        LET arrayPath == path
            itemPath == ItemPath(path)
            filteredItems ==
                SelectSeq([i \in 1..Len(data.items) |->
                              filterJson(data.items[i], selectedPaths, itemPath)],
                          notNull)
        IN  IF keepContainer(Len(filteredItems) > 0, selectedPaths, arrayPath)
            THEN Arr(filteredItems) ELSE JNull
    ELSE
        LET newMembers == filterMembers(data.members, 1, selectedPaths, path)
            hasContent == Len(newMembers) > 0
        IN  IF keepContainer(hasContent, selectedPaths, path)
            THEN Obj(newMembers) ELSE JNull

(***************************************************************************)
(* The files a user can upload.  A file is a name and a text; JSONparse is *)
(* JSON.parse on the texts of Texts, [ok |-> FALSE] being its SyntaxError. *)
(***************************************************************************)
ka == <<"a">>

kb == <<"b">>

kc == <<"c">>

kd == <<"d">>

kab == <<"a", "b">>

kEmpty == <<>>

kadotb == <<"a", ".", "b">>

kbdotc == <<"b", ".", "c">>

kaitem == <<"a", ".", "[", "]">>

Texts ==
    { "{\"a\":1,\"b\":{\"c\":2}}",
      "{\"a\":[{\"b\":1,\"c\":2},{\"b\":3,\"c\":4}]}",
      "{\"a\":[]}",
      "{\"a\":[1,2]}",
      "{\"a\":null,\"b\":1}",
      "{\"a\":{\"c\":1},\"ab\":{\"c\":2}}",
      "[{\"a\":{\"b\":1}}]",
      "{\"a\":{\"b.c\":1},\"a.b\":{\"d\":1}}",
      "{\"a\":[2],\"a.[]\":null}",
      "{\"\":{\"a\":1}}",
      "{\"a\":[[1],2]}",
      "{\"a\":[{\"b\":1},2]}",
      "{\"a\":1,\"ab\":2}",
      "42",
      "{\"a\":" }

JSONparse(text) ==
    CASE text = "{\"a\":1,\"b\":{\"c\":2}}" ->
            [ok |-> TRUE,
             value |-> Obj(<< <<ka, Num(1)>>,
                              <<kb, Obj(<< <<kc, Num(2)>> >>)>> >>)]
      [] text = "{\"a\":[{\"b\":1,\"c\":2},{\"b\":3,\"c\":4}]}" ->
            [ok |-> TRUE,
             value |-> Obj(<< <<ka, Arr(<< Obj(<< <<kb, Num(1)>>, <<kc, Num(2)>> >>),
                                           Obj(<< <<kb, Num(3)>>, <<kc, Num(4)>> >>) >>)>> >>)]
      [] text = "{\"a\":[]}" ->
            [ok |-> TRUE, value |-> Obj(<< <<ka, Arr(<<>>)>> >>)]
      [] text = "{\"a\":[1,2]}" ->
            [ok |-> TRUE, value |-> Obj(<< <<ka, Arr(<<Num(1), Num(2)>>)>> >>)]
      [] text = "{\"a\":null,\"b\":1}" ->
            [ok |-> TRUE, value |-> Obj(<< <<ka, JNull>>, <<kb, Num(1)>> >>)]
      [] text = "{\"a\":{\"c\":1},\"ab\":{\"c\":2}}" ->
            [ok |-> TRUE,
             value |-> Obj(<< <<ka, Obj(<< <<kc, Num(1)>> >>)>>,
                              <<kab, Obj(<< <<kc, Num(2)>> >>)>> >>)]
      [] text = "[{\"a\":{\"b\":1}}]" ->
            [ok |-> TRUE,
             value |-> Arr(<< Obj(<< <<ka, Obj(<< <<kb, Num(1)>> >>)>> >>) >>)]
      [] text = "{\"a\":{\"b.c\":1},\"a.b\":{\"d\":1}}" ->
            [ok |-> TRUE,
             value |-> Obj(<< <<ka, Obj(<< <<kbdotc, Num(1)>> >>)>>,
                              <<kadotb, Obj(<< <<kd, Num(1)>> >>)>> >>)]
      [] text = "{\"a\":[2],\"a.[]\":null}" ->
            [ok |-> TRUE,
             value |-> Obj(<< <<ka, Arr(<<Num(2)>>)>>, <<kaitem, JNull>> >>)]
      [] text = "{\"\":{\"a\":1}}" ->
            [ok |-> TRUE,
             value |-> Obj(<< <<kEmpty, Obj(<< <<ka, Num(1)>> >>)>> >>)]
      [] text = "{\"a\":[[1],2]}" ->
            [ok |-> TRUE,
             value |-> Obj(<< <<ka, Arr(<< Arr(<<Num(1)>>), Num(2) >>)>> >>)]
      [] text = "{\"a\":[{\"b\":1},2]}" ->
            [ok |-> TRUE,
             value |-> Obj(<< <<ka, Arr(<< Obj(<< <<kb, Num(1)>> >>), Num(2) >>)>> >>)]
      [] text = "{\"a\":1,\"ab\":2}" ->
            [ok |-> TRUE, value |-> Obj(<< <<ka, Num(1)>>, <<kab, Num(2)>> >>)]
      [] text = "42" -> [ok |-> TRUE, value |-> Num(42)]
      [] OTHER -> [ok |-> FALSE]

\* The files of a session: documents with a nested object, an array of
\* scalars, keys sharing a prefix, an array root and an empty key, and a
\* document without keys, as x.json; a text that is no JSON as y.json.
FileTexts ==
    { "{\"a\":1,\"b\":{\"c\":2}}",
      "{\"a\":[1,2]}",
      "{\"a\":1,\"ab\":2}",
      "[{\"a\":{\"b\":1}}]",
      "{\"\":{\"a\":1}}",
      "42" }

Files ==
    [name : {"x.json"}, text : FileTexts]
        \cup [name : {"y.json"}, text : {"{\"a\":"}]

\* the FileReaders that may be reading at one time
MaxReaders == 2

\* the files chosen in one session
MaxUploads == 2

(***************************************************************************)
(* The state of the App component.  A setter of useState does not change   *)
(* what the component shows: it queues the new value, and React renders    *)
(* the component with the queued values later.  A handler is a closure of  *)
(* the last render, so it reads the state of that render.  The effect of   *)
(* lines 96-101 is run by React after a render that changed one of its     *)
(* dependencies; it is a step of its own, and so is a render.  When React  *)
(* renders is React's choice (after each event, or after several callbacks *)
(* batched together), so a render can come after any number of handlers.   *)
(***************************************************************************)
VARIABLES
    jsonData,          \* useState(null): the loaded document, as last rendered
    filteredJsonData,  \* useState(null): the projection shown and downloaded
    allKeysFlat,       \* useState([]): the index of the loaded document
    selectedKeys,      \* useState(new Set()): the selected paths
    expandedKeys,      \* useState(new Set()): the entries shown expanded
    fileName,          \* useState(''): the name of the last file chosen
    error,             \* useState(''): the message shown
    isProcessing,      \* useState(false)
    jsonFile,          \* history: the name of the file jsonData was parsed from
    pending,           \* the state the setter calls made since the last render
                       \* lead to; deps: one of them gave jsonData or
                       \* selectedKeys a new identity
    effectDue,         \* the effect of the last render has not run yet
    syncRender,        \* an event handler of React queued a value: React
                       \* renders before it handles anything else
    readers,           \* the files whose FileReader is still reading
    uploads,           \* the number of files chosen so far
    download           \* the download the last step started: <<name, data>>

\* what useState returned in the last render
renderedVars == <<jsonData, filteredJsonData, allKeysFlat, selectedKeys,
                  expandedKeys, fileName, error, isProcessing, jsonFile>>

appVars == <<renderedVars, pending, effectDue, syncRender, readers, uploads,
             download>>

(***************************************************************************)
(* Calls of the two pure functions on their own, outside the component:    *)
(* buildKeyTree(callData), then filterJson(callData, callPaths) for a set  *)
(* of paths of the index, then the same on the result.                     *)
(***************************************************************************)
VARIABLES
    callData,          \* the document passed to the functions
    callKeys,          \* buildKeyTree(callData)
    callPaths,         \* the selectedPaths passed to filterJson
    callResult,        \* filterJson(callData, callPaths)
    callPc             \* "idle", or how far the calls have got

callVars == <<callData, callKeys, callPaths, callResult, callPc>>

\* the default locale of the engine the code runs on
VARIABLE locale

vars == <<appVars, callVars, locale>>

NoCalls ==
    /\ callData = JNull
    /\ callKeys = <<>>
    /\ callPaths = {}
    /\ callResult = JNull
    /\ callPc = "idle"

NoDownload == <<>>

\* the rendered state, as a queue of setter calls that changes nothing
rendered ==
    [jsonData |-> jsonData,
     filteredJsonData |-> filteredJsonData,
     allKeysFlat |-> allKeysFlat,
     selectedKeys |-> selectedKeys,
     expandedKeys |-> expandedKeys,
     fileName |-> fileName,
     error |-> error,
     isProcessing |-> isProcessing,
     jsonFile |-> jsonFile,
     deps |-> FALSE]

\* the first render has been made, its effect has not run yet
InitAppState ==
    /\ jsonData = JNull
    /\ filteredJsonData = JNull
    /\ allKeysFlat = <<>>
    /\ selectedKeys = {}
    /\ expandedKeys = {}
    /\ fileName = ""
    /\ error = ""
    /\ isProcessing = FALSE
    /\ jsonFile = ""
    /\ pending = rendered
    /\ effectDue = TRUE
    /\ syncRender = FALSE
    /\ readers = {}
    /\ uploads = 0
    /\ download = NoDownload

InitApp == InitAppState /\ NoCalls /\ locale \in Locales

\* React renders App: useState returns the queued values.  The effects of
\* the previous render are run before a new render starts.  The render is
\* followed by the effect when jsonData or selectedKeys is not the object
\* of the previous render.
render ==
    /\ ~effectDue
    /\ pending # rendered
    /\ jsonData' = pending.jsonData
    /\ filteredJsonData' = pending.filteredJsonData
    /\ allKeysFlat' = pending.allKeysFlat
    /\ selectedKeys' = pending.selectedKeys
    /\ expandedKeys' = pending.expandedKeys
    /\ fileName' = pending.fileName
    /\ error' = pending.error
    /\ isProcessing' = pending.isProcessing
    /\ jsonFile' = pending.jsonFile
    /\ pending' = [pending EXCEPT !.deps = FALSE]
    /\ effectDue' = pending.deps
    /\ syncRender' = FALSE
    /\ download' = NoDownload
    /\ UNCHANGED <<readers, uploads>>
    /\ UNCHANGED <<callVars, locale>>

\* useEffect(() => { if (jsonData) setFilteredJsonData(filterJson(jsonData,
\* selectedKeys)) }, [jsonData, selectedKeys, filterJson]), with the jsonData
\* and selectedKeys of the render it follows
useEffectFilter ==
    /\ effectDue
    /\ effectDue' = FALSE
    /\ pending' = IF jsonData # JNull
                  THEN [pending EXCEPT !.filteredJsonData =
                                           filterJson(jsonData, selectedKeys, <<>>)]
                  ELSE pending
    /\ download' = NoDownload
    /\ UNCHANGED <<renderedVars, syncRender, readers, uploads>>
    /\ UNCHANGED <<callVars, locale>>

\* handleFileUpload up to reader.readAsText(file).  The callbacks of the
\* readers run in any order, so the pending readers are a set; a file is not
\* chosen again while it is still being read.
handleFileUpload(file) ==
    /\ ~syncRender
    /\ uploads < MaxUploads
    /\ Cardinality(readers) < MaxReaders
    /\ file \notin readers
    /\ pending' = [pending EXCEPT !.fileName = file.name,
                                  !.error = "",
                                  !.isProcessing = TRUE]
    /\ syncRender' = (pending' # rendered)
    /\ readers' = readers \cup {file}
    /\ uploads' = uploads + 1
    /\ download' = NoDownload
    /\ UNCHANGED <<renderedVars, effectDue>>
    /\ UNCHANGED <<callVars, locale>>

\* err.message of the SyntaxError JSON.parse throws on a text that ends too
\* early.  The wording is the engine's: that of V8 and that of
\* JavaScriptCore stand for the engines the application may run on.
SyntaxErrorMessages ==
    { "Unexpected end of JSON input",
      "JSON Parse error: Unexpected EOF" }

\* reader.onload of the reader of a pending file
readerOnload(file) ==
    /\ ~syncRender
    /\ file \in readers
    /\ LET parsed == JSONparse(file.text)
           extracted == IF parsed.ok THEN buildKeyTree(parsed.value, locale) ELSE <<>>
       IN  IF parsed.ok /\ Len(extracted) # 0
           THEN pending' = [pending EXCEPT !.jsonData = parsed.value,
                                           !.allKeysFlat = extracted,
                                           !.selectedKeys = PathSet(extracted),
                                           !.expandedKeys = {},
                                           !.jsonFile = file.name,
                                           !.deps = TRUE,
                                           !.isProcessing = FALSE]
           ELSE \E message \in (IF parsed.ok THEN {"No keys found in JSON."}
                                             ELSE SyntaxErrorMessages) :
                    pending' = [pending EXCEPT !.error = "Error: " \o message,
                                               !.jsonData = JNull,
                                               !.allKeysFlat = <<>>,
                                               !.jsonFile = "",
                                               !.deps = pending.deps \/ jsonData # JNull,
                                               !.isProcessing = FALSE]
    /\ readers' = readers \ {file}
    /\ download' = NoDownload
    /\ UNCHANGED <<renderedVars, effectDue, syncRender, uploads>>
    /\ UNCHANGED <<callVars, locale>>

\* reader.onerror of the reader of a pending file
readerOnerror(file) ==
    /\ ~syncRender
    /\ file \in readers
    /\ pending' = [pending EXCEPT !.error = "Failed to read file.",
                                  !.isProcessing = FALSE]
    /\ readers' = readers \ {file}
    /\ download' = NoDownload
    /\ UNCHANGED <<renderedVars, effectDue, syncRender, uploads>>
    /\ UNCHANGED <<callVars, locale>>

\* allKeysFlat.find(k => k.path === path)?.parentPath; undefined is NullPath
parentPathOf(keys, path) ==
    IF \E i \in 1..Len(keys) : keys[i].path = path
    THEN keys[CHOOSE i \in 1..Len(keys) :
                /\ keys[i].path = path
                /\ \A j \in 1..(i - 1) : keys[j].path # path].parentPath
    ELSE NullPath

\* while (parent) { newSet.add(parent); parent = find(parent)?.parentPath }
RECURSIVE addParents(_, _, _)
addParents(keys, parent, newSet) ==
    IF parent = NullPath \/ ~Truthy(parent) THEN newSet
    ELSE addParents(keys, parentPathOf(keys, parent), newSet \cup {parent})

\* the deselect branch: allKeysFlat.filter(k => k.path.startsWith(keyPath))
toggleOff(keys, prev, keyPath) ==
    prev \ {keys[i].path : i \in {j \in 1..Len(keys) : startsWith(keys[j].path, keyPath)}}

\* the select branch
toggleOn(keys, prev, keyPath, isParent) ==
    LET withParents == addParents(keys, parentPathOf(keys, keyPath), prev \cup {keyPath})
    IN  IF isParent
        THEN withParents \cup
             {keys[i].path : i \in {j \in 1..Len(keys) :
                                      startsWith(keys[j].path, keyPath \o <<".">>)}}
        ELSE withParents

\* renderKeyItem: allKeysFlat.some(k => k.parentPath === keyObj.path)
hasChildren(keys, path) == \E i \in 1..Len(keys) : keys[i].parentPath = path

\* The paths whose checkbox is on screen: the level-0 entries, and the
\* entries renderKeyItem shows under a shown entry that is expanded and has
\* children (those whose parentPath is its path).  The search box is empty,
\* so filteredKeys is allKeysFlat.
RECURSIVE shownUnder(_, _, _, _)
shownUnder(keys, expanded, shown, n) ==
    IF n = 0 THEN shown
    ELSE shownUnder(keys, expanded,
                    shown \cup {keys[i].path : i \in {j \in 1..Len(keys) :
                                    /\ keys[j].parentPath \in shown
                                    /\ keys[j].parentPath \in expanded}},
                    n - 1)

renderedPaths(keys, expanded) ==
    shownUnder(keys, expanded,
               {keys[i].path : i \in {j \in 1..Len(keys) : keys[j].level = 0}},
               Len(keys))

\* the button of a shown entry that has children is clicked:
\* handleToggleExpand(keyObj.path)
handleToggleExpand(keyPath) ==
    /\ ~syncRender
    /\ jsonData # JNull
    /\ keyPath \in renderedPaths(allKeysFlat, expandedKeys)
    /\ hasChildren(allKeysFlat, keyPath)
    /\ pending' = [pending EXCEPT
                      !.expandedKeys = IF keyPath \in pending.expandedKeys
                                       THEN pending.expandedKeys \ {keyPath}
                                       ELSE pending.expandedKeys \cup {keyPath}]
    /\ syncRender' = (pending' # rendered)
    /\ download' = NoDownload
    /\ UNCHANGED <<renderedVars, effectDue, readers, uploads>>
    /\ UNCHANGED <<callVars, locale>>

\* The checkbox of a shown entry changes: handleKeyToggle(keyObj.path,
\* hasChildren).  The checkbox and allKeysFlat are those of the last render;
\* prev is the selection the queued setter calls lead to.
handleKeyToggle(keyPath) ==
    /\ ~syncRender
    /\ jsonData # JNull
    /\ keyPath \in renderedPaths(allKeysFlat, expandedKeys)
    /\ pending' =
          [pending EXCEPT
             !.selectedKeys =
                 IF keyPath \in pending.selectedKeys
                 THEN toggleOff(allKeysFlat, pending.selectedKeys, keyPath)
                 ELSE toggleOn(allKeysFlat, pending.selectedKeys, keyPath,
                               hasChildren(allKeysFlat, keyPath)),
             !.deps = TRUE]
    /\ syncRender' = TRUE
    /\ download' = NoDownload
    /\ UNCHANGED <<renderedVars, effectDue, readers, uploads>>
    /\ UNCHANGED <<callVars, locale>>

\* the buttons Select All and Deselect All are shown while a document is
handleSelectAll ==
    /\ ~syncRender
    /\ jsonData # JNull
    /\ pending' = [pending EXCEPT !.selectedKeys = PathSet(allKeysFlat),
                                  !.deps = TRUE]
    /\ syncRender' = TRUE
    /\ download' = NoDownload
    /\ UNCHANGED <<renderedVars, effectDue, readers, uploads>>
    /\ UNCHANGED <<callVars, locale>>

handleDeselectAll ==
    /\ ~syncRender
    /\ jsonData # JNull
    /\ pending' = [pending EXCEPT !.selectedKeys = {}, !.deps = TRUE]
    /\ syncRender' = TRUE
    /\ download' = NoDownload
    /\ UNCHANGED <<renderedVars, effectDue, readers, uploads>>
    /\ UNCHANGED <<callVars, locale>>

\* `filtered_${fileName || 'data'}.json`
downloadName(name) == "filtered_" \o (IF name # "" THEN name ELSE "data") \o ".json"

\* the Download button is disabled while there is no document; the handler
\* has the filteredJsonData and the fileName of the last render
handleDownload ==
    /\ ~syncRender
    /\ jsonData # JNull
    /\ IF filteredJsonData = JNull
       THEN /\ pending' = [pending EXCEPT !.error = "No data to download."]
            /\ syncRender' = (pending' # rendered)
            /\ download' = NoDownload
       ELSE /\ download' = <<downloadName(fileName), filteredJsonData>>
            /\ UNCHANGED <<pending, syncRender>>
    /\ UNCHANGED <<renderedVars, effectDue, readers, uploads>>
    /\ UNCHANGED <<callVars, locale>>

NextApp ==
    \/ \E file \in Files : handleFileUpload(file)
    \/ \E file \in readers : readerOnload(file)
    \/ \E file \in readers : readerOnerror(file)
    \/ render
    \/ useEffectFilter
    \/ \E i \in 1..Len(allKeysFlat) : handleToggleExpand(allKeysFlat[i].path)
    \/ \E i \in 1..Len(allKeysFlat) : handleKeyToggle(allKeysFlat[i].path)
    \/ handleSelectAll
    \/ handleDeselectAll
    \/ handleDownload

Spec == InitApp /\ [][NextApp]_vars

(***************************************************************************)
(* The calls of the pure functions                                         *)
(***************************************************************************)
\* the members an object, and the items an array, of CallDocs has at most
MaxChildren == 2

GenKeys == {ka, kab, kb}

GenValues ==
    { JNull,
      Num(1),
      Arr(<<Num(1)>>),
      Obj(<< <<kc, Num(2)>> >>),
      Arr(<< Obj(<< <<kc, JNull>>, <<kd, Num(1)>> >>) >>) }

\* the sequences of at most n elements of S
SeqsUpTo(S, n) == UNION {[1..m -> S] : m \in 0..n}

\* objects whose keys are distinct keys of GenKeys, and arrays, of GenValues
GenDocs ==
    {Obj([i \in 1..Len(ks) |-> <<ks[i], vs[i]>>]) :
        <<ks, vs>> \in {kv \in SeqsUpTo(GenKeys, MaxChildren) \X SeqsUpTo(GenValues, MaxChildren) :
                          /\ Len(kv[1]) = Len(kv[2])
                          /\ \A i, j \in 1..Len(kv[1]) : i # j => kv[1][i] # kv[1][j]}}
    \cup {Arr(vs) : vs \in SeqsUpTo(GenValues, MaxChildren)}

\* every document some text of Texts parses to, the scalars among them, and
\* the generated ones
CallDocs ==
    {JSONparse(text).value : text \in {t \in Texts : JSONparse(t).ok}}
        \cup {JNull} \cup GenDocs

InitCalls ==
    /\ InitAppState
    /\ locale \in Locales
    /\ callData \in CallDocs
    /\ callKeys = <<>>
    /\ callPaths = {}
    /\ callResult = JNull
    /\ callPc = "start"

callBuildKeyTree ==
    /\ callPc = "start"
    /\ callKeys' = buildKeyTree(callData, locale)
    /\ callPc' = "indexed"
    /\ UNCHANGED <<callData, callPaths, callResult>>
    /\ UNCHANGED <<appVars, locale>>

\* the selection: any set of paths of the index
choosePaths(paths) ==
    /\ callPc = "indexed"
    /\ paths \subseteq PathSet(callKeys)
    /\ callPaths' = paths
    /\ callPc' = "chosen"
    /\ UNCHANGED <<callData, callKeys, callResult>>
    /\ UNCHANGED <<appVars, locale>>

callFilterJson ==
    /\ callPc = "chosen"
    /\ callResult' = filterJson(callData, callPaths, <<>>)
    /\ callPc' = "filtered"
    /\ UNCHANGED <<callData, callKeys, callPaths>>
    /\ UNCHANGED <<appVars, locale>>

\* the result is filtered again, with the selection restricted to the paths
\* of the result's own index
callFilterJsonAgain ==
    /\ callPc = "filtered"
    /\ callData' = callResult
    /\ callKeys' = buildKeyTree(callResult, locale)
    /\ callPaths' = callPaths \cap PathSet(callKeys')
    /\ callResult' = filterJson(callData', callPaths', <<>>)
    /\ callPc' = "filteredAgain"
    /\ UNCHANGED <<appVars, locale>>

NextCalls ==
    \/ callBuildKeyTree
    \/ \E paths \in SUBSET PathSet(callKeys) : choosePaths(paths)
    \/ callFilterJson
    \/ callFilterJsonAgain

SpecCalls == InitCalls /\ [][NextCalls]_vars

(***************************************************************************)
(* Notions the properties below are stated with                            *)
(***************************************************************************)
\* the paths on the parentPath chain of `path` that are entries of the index
RECURSIVE ancestorsOf(_, _)
ancestorsOf(keys, path) ==
    LET parent == parentPathOf(keys, path)
    IN  IF parent \notin PathSet(keys) THEN {}
        ELSE {parent} \cup ancestorsOf(keys, parent)

\* the entries whose parentPath chain reaches `path`
descendantsOf(keys, path) ==
    {q \in PathSet(keys) : path \in ancestorsOf(keys, q)}

ancestorClosed(keys, paths) ==
    \A q \in paths : ancestorsOf(keys, q) \subseteq paths

\* the key paths and the element slot paths reachable from a document: every
\* object key path, and <p>.[] for every non-empty array at path p
RECURSIVE reachablePaths(_, _)
reachablePaths(node, path) ==
    IF ~IsObjectType(node) THEN {}
    ELSE IF node.t = "arr" THEN
        (IF Len(node.items) > 0 THEN {ItemPath(path)} ELSE {})
        \cup UNION {reachablePaths(node.items[i], ItemPath(path)) :
                        i \in 1..Len(node.items)}
    ELSE
        UNION {{JoinPath(path, node.members[i][1])}
                  \cup reachablePaths(node.members[i][2],
                                      JoinPath(path, node.members[i][1])) :
                  i \in 1..Len(node.members)}

\* every queued setter call has been rendered and the effect has run
settled == ~effectDue /\ pending = rendered

\* a load of this file fails: its text does not parse, or has no keys
loadFails(file) ==
    \/ ~JSONparse(file.text).ok
    \/ Len(buildKeyTree(JSONparse(file.text).value, locale)) = 0

(***************************************************************************)
(* Properties                                                              *)
(***************************************************************************)
\* C1: Round-trip identity.  Whenever a document is loaded and the selection
\* is the set of all paths of its index (the state right after a successful
\* load), the filtered document, once the effect has computed it and it has
\* been rendered, is deep-equal to the document.
C1_RoundTrip ==
    (settled /\ jsonData # JNull /\ selectedKeys = PathSet(allKeysFlat))
        => filteredJsonData = jsonData

\* C2: Ancestor closure.  After any sequence of toggles, select all and
\* deselect all on the document of the first file chosen (no other load is
\* under way), every selected path has every entry on its parentPath chain
\* selected as well.
C2_AncestorClosure ==
    (uploads = 1 /\ jsonData # JNull) => ancestorClosed(allKeysFlat, selectedKeys)

\* C4: Every load error (the text does not parse, the document has no keys,
\* or the read fails) leaves the session with no document, no entries and an
\* empty selection: that is the state the setter calls of the failing
\* callback lead to.
C4_LoadErrorClears ==
    [][(\E file \in readers :
            \/ readerOnerror(file)
            \/ (loadFails(file) /\ readerOnload(file)))
        => (/\ pending'.jsonData = JNull
            /\ pending'.allKeysFlat = <<>>
            /\ pending'.selectedKeys = {})]_vars

\* C5: The paths of buildKeyTree(doc) are exactly the reachable key paths and
\* element slot paths of doc: every object key path, and <p>.[] for every
\* non-empty array at path p.
C5_ExactPaths ==
    callPc = "indexed" => PathSet(callKeys) = reachablePaths(callData, <<>>)

\* C3: Deselect-all yields nothing.  filterJson of any document, scalar,
\* object or array, with the empty selection is null.
C3_EmptySelectionNull ==
    (callPc = "filtered" /\ callPaths = {}) => callResult = JNull

C3_Witness ==
    /\ callPc = "filtered"
    /\ callPaths = {}
    /\ callData = JSONparse("{\"a\":[{\"b\":1,\"c\":2},{\"b\":3,\"c\":4}]}").value
    /\ callResult = JNull

\* C6: Idempotence of projection.  Filtering the result of filterJson again,
\* with the selection restricted to the paths of the result's own index,
\* returns the result unchanged.
C6_Idempotent ==
    callPc = "filteredAgain" => callResult = callData

\* C8: A selected key whose value is JSON null is kept with the value null:
\* the filtered object has that key, with value null.
C8_NullKept ==
    (callPc = "filtered" /\ callData.t = "obj")
        => \A i \in 1..Len(callData.members) :
              (/\ callData.members[i][2] = JNull
               /\ JoinPath(<<>>, callData.members[i][1]) \in callPaths)
                  => /\ callResult.t = "obj"
                     /\ \E j \in 1..Len(callResult.members) :
                           callResult.members[j] = <<callData.members[i][1], JNull>>

\* C9: Frame of deselect.  Toggling a selected path removes from the
\* selection exactly that path and its descendant entries; every other entry
\* keeps its status.
C9_DeselectFrame ==
    [][\A keyPath \in PathSet(allKeysFlat) :
          (keyPath \in pending.selectedKeys /\ handleKeyToggle(keyPath))
              => pending'.selectedKeys = pending.selectedKeys \
                    ({keyPath} \cup descendantsOf(allKeysFlat, keyPath))]_vars

\* filterJson without the guard of the object branch: every child is
\* filtered, and the absent results are discarded
RECURSIVE filterJsonUnguarded(_, _, _)
filterJsonUnguarded(data, selectedPaths, path) ==
    IF ~IsObjectType(data) THEN
        IF path \in selectedPaths THEN data ELSE JNull
    ELSE IF data.t = "arr" THEN
        LET filteredItems ==
                SelectSeq([i \in 1..Len(data.items) |->
                              filterJsonUnguarded(data.items[i], selectedPaths,
                                                  ItemPath(path))],
                          notNull)
        IN  IF Len(filteredItems) > 0 \/ path \in selectedPaths
            THEN Arr(filteredItems) ELSE JNull
    ELSE
        LET children == [i \in 1..Len(data.members) |->
                            <<data.members[i][1],
                              filterJsonUnguarded(data.members[i][2], selectedPaths,
                                                  JoinPath(path, data.members[i][1]))>>]
            present(member) == member[2] # JNull
            newMembers == SelectSeq(children, present)
        IN  IF Len(newMembers) > 0 \/ path \in selectedPaths
            THEN Obj(newMembers) ELSE JNull

\* C10: The guard of the object branch does not change the result.  For an
\* ancestor-closed selection, filterJson returns what the algorithm without
\* the guard returns.
C10_GuardEquivalent ==
    (callPc = "filtered" /\ ancestorClosed(callKeys, callPaths))
        => callResult = filterJsonUnguarded(callData, callPaths, <<>>)

\* the siblings a and ab: with ab selected and a not, the guard lets a through
C10_Witness ==
    /\ callPc = "filtered"
    /\ callData = JSONparse("{\"a\":{\"c\":1},\"ab\":{\"c\":2}}").value
    /\ callPaths = {kab, kab \o <<".">> \o kc}
    /\ ancestorClosed(callKeys, callPaths)
    /\ shouldProcessChild(callPaths, ka)
    /\ callResult = Obj(<< <<kab, Obj(<< <<kc, Num(2)>> >>)>> >>)

\* the values a document holds at the path `target`, in document order
RECURSIVE valuesAt(_, _, _)
valuesAt(node, path, target) ==
    IF ~IsObjectType(node) THEN <<>>
    ELSE IF node.t = "arr" THEN
        Flatten([i \in 1..Len(node.items) |->
                    (IF ItemPath(path) = target THEN <<node.items[i]>> ELSE <<>>)
                    \o valuesAt(node.items[i], ItemPath(path), target)])
    ELSE
        Flatten([i \in 1..Len(node.members) |->
                    (IF JoinPath(path, node.members[i][1]) = target
                     THEN <<node.members[i][2]>> ELSE <<>>)
                    \o valuesAt(node.members[i][2],
                                JoinPath(path, node.members[i][1]), target)])

\* the objects and arrays a document holds at the path `target`
containersAt(doc, target) == SelectSeq(valuesAt(doc, <<>>, target), IsObjectType)

\* the paths of everything a document holds below the path `target`
pathsBelow(doc, target) ==
    LET held == valuesAt(doc, <<>>, target)
    IN  UNION {reachablePaths(held[i], target) : i \in 1..Len(held)}

emptyOf(container) == IF container.t = "arr" THEN Arr(<<>>) ELSE Obj(<<>>)

\* an entry that is selected while nothing below it is
placeholder(keyPath) ==
    /\ keyPath \in PathSet(allKeysFlat)
    /\ keyPath \in selectedKeys
    /\ pathsBelow(jsonData, keyPath) \cap selectedKeys = {}

\* C7: A directly selected container survives as an empty placeholder.
\* Toggling an entry off leaves every selected ancestor of it selected, and
\* whenever a container entry is selected while every entry below it is
\* deselected, the filtered document, once the effect has computed it and
\* it has been rendered, holds, wherever the document holds an object or
\* array at that path, the empty object or the empty array.
C7_Placeholder ==
    /\ []((settled /\ jsonData # JNull) =>
            \A keyPath \in PathSet(allKeysFlat) :
                placeholder(keyPath) =>
                    containersAt(filteredJsonData, keyPath)
                        = [i \in 1..Len(containersAt(jsonData, keyPath)) |->
                              emptyOf(containersAt(jsonData, keyPath)[i])])
    /\ [][\A keyPath \in pending.selectedKeys :
             handleKeyToggle(keyPath) =>
                \A q \in ancestorsOf(allKeysFlat, keyPath) \cap pending.selectedKeys :
                    q \in pending'.selectedKeys]_vars

\* {"a":1,"b":{"c":2}} with b.c toggled off: b is kept as {}
C7_Witness ==
    /\ settled
    /\ jsonData = JSONparse("{\"a\":1,\"b\":{\"c\":2}}").value
    /\ selectedKeys = {ka, kb}
    /\ placeholder(kb)
    /\ filteredJsonData = Obj(<< <<ka, Num(1)>>, <<kb, Obj(<<>>)>> >>)

\* C11: The index is a well-formed forest.  Exactly the level-0 entries have
\* no parentPath, every entry of level > 0 has the path of another entry as
\* its parentPath, and so every entry is reached from a level-0 entry along
\* parentPath links, which is how the tree is displayed; for array-rooted
\* documents as for object-rooted ones.
C11_Forest ==
    \A i \in 1..Len(allKeysFlat) :
        LET entry == allKeysFlat[i]
        IN  /\ entry.level = 0 <=> entry.parentPath = NullPath
            /\ entry.level > 0 =>
                  \E j \in 1..Len(allKeysFlat) :
                      j # i /\ allKeysFlat[j].path = entry.parentPath
            /\ entry.path \in renderedPaths(allKeysFlat, PathSet(allKeysFlat))

\* C12: The recorded file name belongs to the loaded document.  Whenever a
\* document is loaded, fileName is the name of the file it was parsed from
\* (so a download is named after the file its data comes from), and while no
\* document is loaded no file name is presented as loaded.
C12_FileNameOfDocument ==
    /\ jsonData # JNull => fileName = jsonFile
    /\ jsonData = JNull => fileName = ""

\* C12, for the states in which no file is being read any more and nothing
\* is left to render: once every FileReader has called back, a loaded
\* document is recorded under the name of the file it was parsed from.
C12_FileNameOfDocumentAtRest ==
    (settled /\ jsonData # JNull /\ readers = {}) => fileName = jsonFile

====
